---- MODULE Spec2Model ----
(***************************************************************************)
(* Constraint-based timetable generator (src/app.py, TimeTableGenerator).  *)
(* State: the generator object's fields after construction, the locals of  *)
(* the section being scheduled, and the position inside generate_timetable.*)
(***************************************************************************)
EXTENDS Integers, Sequences, FiniteSets, TLC

VARIABLES
    courses_df,           \* self.courses_df: the course rows
    semester_type,        \* self.semester_type
    student_counts,       \* self.student_counts[branch][year]
    rooms,                \* self.rooms: List[Room]
    sections,             \* all_sections: the flattened self.sections
    timetable,            \* self.timetable: section name -> List[TimeTableSlot]
    faculty_schedule,     \* self.faculty_schedule[faculty][day]: Set[time]
    section_schedule,     \* self.section_schedule[section][day]: Set[time]
    room_schedule,        \* self.room_schedule[room][day]: Set[time]
    daily_course_count,   \* self.daily_course_count[section][day]: int
    remaining_hours,      \* local of _generate_section_timetable: Course -> int
    course_room_history,  \* local of _generate_section_timetable: code -> Set[room number]
    attempts,             \* local of _generate_section_timetable
    pending,              \* the part of the shuffled list the for loop has not visited yet
    sec_idx,              \* position of generate_timetable's for loop in all_sections
    generation_success,   \* local of generate_timetable
    pc,                   \* "start" | "next_section" | "while" | "for" | "done" | "raised"
    errors,               \* the st.error reports, in order
    issues,               \* the st.warning reports of the validator, in order
    result,               \* what generate_timetable returned: None or the statistics
    called,               \* history: the sections _generate_section_timetable was called on
    total_attempts,       \* history: calls of _attempt_schedule_courses in the run
    validator_runs        \* history: calls of _validate_timetable in the run

vars == <<courses_df, semester_type, student_counts, rooms, sections, timetable, faculty_schedule, section_schedule,
          room_schedule, daily_course_count, remaining_hours,
          course_room_history, attempts, pending, sec_idx,
          generation_success, pc, errors, issues, result, called,
          total_attempts, validator_runs>>

---------------------------------------------------------------------------
(* Module constants, src/app.py:12-23 *)

DAYS == <<"Monday", "Tuesday", "Wednesday", "Thursday", "Friday">>

TIME_SLOTS == <<"08:45-09:45", "09:45-10:45", "10:45-11:45", "11:00-12:00",
                "12:00-13:00", "14:15-15:15", "15:15-16:15", "16:30-17:30">>

MORNING_SLOTS == SubSeq(TIME_SLOTS, 1, 4)

AFTERNOON_SLOTS == SubSeq(TIME_SLOTS, 5, Len(TIME_SLOTS))

COLORS == <<"#FF9999", "#99FF99", "#9999FF", "#FFFF99", "#FF99FF",
            "#99FFFF", "#FFB366", "#99CC99", "#9999CC", "#FFCC99",
            "#FF99CC", "#99FFCC", "#CC99FF", "#FFFF66", "#FF66FF">>

max_courses_per_day == 4

max_attempts == 100

None == "None"

---------------------------------------------------------------------------
(* Helpers for Python's list and dict idioms *)

Range(s) == {s[i] : i \in DOMAIN s}

\* `x in list`
InList(x, s) == \E i \in DOMAIN s : s[i] = x

\* list.index(x)
IndexOf(x, s) == CHOOSE i \in DOMAIN s : s[i] = x /\ \A j \in 1..(i - 1) : s[j] # x

\* math.ceil(a / b) for positive b
Ceil(a, b) == (a + b - 1) \div b

\* max(...) and min(...) over a non-empty set of integers
Max(S) == CHOOSE x \in S : \A y \in S : y <= x

Min(S) == CHOOSE x \in S : \A y \in S : x <= y

RECURSIVE Sum(_, _)
\* sum(f[x] for x in S)
Sum(f, S) == IF S = {} THEN 0
             ELSE LET x == CHOOSE y \in S : TRUE IN f[x] + Sum(f, S \ {x})

\* the distinct elements of a list in order of first appearance (dict key order)
Distinct(s) ==
    LET firsts == {i \in DOMAIN s : \A j \in 1..(i - 1) : s[j] # s[i]}
    IN [k \in 1..Cardinality(firsts) |->
           s[CHOOSE i \in firsts : Cardinality({j \in firsts : j < i}) = k - 1]]

---------------------------------------------------------------------------
(* Section Builder: __init__ and _initialize_data *)

target_branches == <<"cse", "ece", "aids">>

target_semesters(parity) ==
    IF parity = "even" THEN <<2, 4, 6, 8>> ELSE <<1, 3, 5, 7>>

\* str.lower() on the branch labels the input uses
lower(b) == CASE b = "CSE" -> "cse"
              [] b = "ECE" -> "ece"
              [] b = "AIDS" -> "aids"
              [] OTHER -> b

\* the rooms_df rows as Room values, in row order
InitRooms(rooms_df) ==
    [i \in DOMAIN rooms_df |->
        [number |-> rooms_df[i].RoomNumber, capacity |-> rooms_df[i].Capacity]]

\* Course(...) of one matching row; the color depends on the list built so far
MakeCourse(row, semester, branch, course_assignments) ==
    [code |-> row.CourseCode, name |-> row.CourseName, credits |-> row.Credits,
     semester |-> semester, branch |-> branch,
     color |-> COLORS[(Len(course_assignments) % Len(COLORS)) + 1]]

\* random.choice moved into the `for _ in range(course.credits)` loop
credit_hours_each_chosen(course, faculty, row) ==
    {[k \in 1..course.credits |-> [course |-> course, faculty |-> g[k]]]
        : g \in [1..course.credits -> Range(row.FacultyMembers)]}

\* the CourseAssignments the `for _ in range(course.credits)` loop appends for
\* a row, as the set of lists it can append
credit_hours(course, faculty, row) ==
    {[k \in 1..course.credits |-> [course |-> course, faculty |-> faculty]]}

RECURSIVE CreateFrom(_, _, _, _, _, _)
\* The loop of _create_course_assignments from row i on.  random.choice may
\* return any member of the faculty list, so the result is the set of lists
\* the call can return.
CreateFrom(courses_data, branch, semester, i, course_assignments, faculty_assignments) ==
    IF i > Len(courses_data) THEN {course_assignments}
    ELSE LET row == courses_data[i] IN
        IF row.Semester = semester /\ lower(row.Branch) = branch
        THEN LET course == MakeCourse(row, semester, branch, course_assignments)
                 choices == IF course.code \in DOMAIN faculty_assignments
                            THEN {faculty_assignments[course.code]}
                            ELSE Range(row.FacultyMembers)
             IN UNION { UNION {
                  CreateFrom(courses_data, branch, semester, i + 1,
                      course_assignments \o hours,
                      (course.code :> f) @@ faculty_assignments)
                  : hours \in credit_hours(course, f, row) } : f \in choices }
        ELSE CreateFrom(courses_data, branch, semester, i + 1,
                        course_assignments, faculty_assignments)

_create_course_assignments(courses_data, branch, semester) ==
    CreateFrom(courses_data, branch, semester, 1, <<>>, <<>>)

need_multiple(student_count, rs) ==
    student_count > Max({rs[i].capacity : i \in DOMAIN rs})

\* the cohort divided by the largest capacity instead of the smallest
num_sections_by_largest(student_count, rs) ==
    IF need_multiple(student_count, rs)
    THEN Ceil(student_count, Max({rs[i].capacity : i \in DOMAIN rs}))
    ELSE 1

num_sections(student_count, rs) ==
    IF need_multiple(student_count, rs)
    THEN Ceil(student_count, Min({rs[i].capacity : i \in DOMAIN rs}))
    ELSE 1

students_per_section(student_count, rs) ==
    IF need_multiple(student_count, rs)
    THEN Ceil(student_count, num_sections(student_count, rs))
    ELSE student_count

\* f"S{semester}{branch.upper()}{chr(65 + section_num)}", kept as its three parts
SectionName(semester, branch, section_num) == <<semester, branch, 65 + section_num>>

RECURSIVE SectionLists(_, _, _, _, _, _)
\* the `for section_num in range(num_sections)` loop of one (branch, semester):
\* the set of section lists it can build, from section_num on
SectionLists(courses_data, rs, branch, semester, student_count, section_num) ==
    IF section_num >= num_sections(student_count, rs) THEN {<<>>}
    ELSE { <<[name |-> SectionName(semester, branch, section_num),
              semester |-> semester,
              branch |-> branch,
              student_count |-> students_per_section(student_count, rs),
              course_assignments |-> ca]>> \o rest
           : ca \in _create_course_assignments(courses_data, branch, semester),
             rest \in SectionLists(courses_data, rs, branch, semester,
                                   student_count, section_num + 1) }

RECURSIVE CohortLists(_, _, _)
\* the two outer loops of _initialize_data from cohort k on (branch-major,
\* semester-minor): the set of all_sections lists construction can produce
CohortLists(input, rs, k) ==
    LET sems == target_semesters(input.semester_type)
        n == Len(target_branches) * Len(sems)
    IN IF k > n THEN {<<>>}
       ELSE LET branch == target_branches[((k - 1) \div Len(sems)) + 1]
                semester == sems[((k - 1) % Len(sems)) + 1]
                year == (semester + 1) \div 2
                student_count == input.student_counts[branch][year]
            IN { here \o rest
                 : here \in SectionLists(input.courses_df, rs, branch, semester,
                                         student_count, 0),
                   rest \in CohortLists(input, rs, k + 1) }

_initialize_data(input) == CohortLists(input, InitRooms(input.rooms_df), 1)

---------------------------------------------------------------------------
(* Availability Index: _is_slot_available *)

\* the faculty test left out
faculty_conflict_ignored(faculty, day, time) == FALSE

faculty_conflict(faculty, day, time) == time \in faculty_schedule[faculty][day]

\* the section test left out
section_conflict_ignored(section, day, time) == FALSE

section_conflict(section, day, time) == time \in section_schedule[section][day]

\* the room test left out
room_conflict_ignored(room, day, time) == FALSE

room_conflict(room, day, time) == time \in room_schedule[room][day]

\* the daily maximum left out
daily_max_ignored(section, day) == FALSE

daily_max_reached(section, day) ==
    daily_course_count[section][day] >= max_courses_per_day

morning_count(section, day) ==
    Cardinality({t \in section_schedule[section][day] : InList(t, MORNING_SLOTS)})

afternoon_count(section, day) ==
    Cardinality({t \in section_schedule[section][day] : InList(t, AFTERNOON_SLOTS)})

\* the morning cap left out
morning_cap_ignored(section, day, time) == FALSE

morning_cap_reached(section, day, time) ==
    InList(time, MORNING_SLOTS) /\ morning_count(section, day) >= 3

\* the afternoon cap left out
afternoon_cap_ignored(section, day, time) == FALSE

afternoon_cap_reached(section, day, time) ==
    ~InList(time, MORNING_SLOTS) /\ afternoon_count(section, day) >= 2

_is_slot_available(faculty, section, room, day, time) ==
    IF faculty_conflict(faculty, day, time) THEN FALSE
    ELSE IF section_conflict(section, day, time) THEN FALSE
    ELSE IF room_conflict(room, day, time) THEN FALSE
    ELSE IF daily_max_reached(section, day) THEN FALSE
    ELSE IF morning_cap_reached(section, day, time) THEN FALSE
    ELSE IF afternoon_cap_reached(section, day, time) THEN FALSE
    ELSE TRUE

---------------------------------------------------------------------------
(* Scheduler: _attempt_schedule_courses, _try_schedule_course,             *)
(* _select_best_room, _schedule_slot, _update_room_history                 *)

\* sorted(DAYS, key=daily_course_count[section][d]): a stable sort
days_by_load(section) ==
    LET cnt(i) == daily_course_count[section][DAYS[i]]
        before(i, j) == cnt(i) < cnt(j) \/ (cnt(i) = cnt(j) /\ i < j)
        rank(i) == Cardinality({j \in DOMAIN DAYS : before(j, i)}) + 1
    IN [k \in DOMAIN DAYS |-> DAYS[CHOOSE i \in DOMAIN DAYS : rank(i) = k]]

\* the morning slots first whatever the day's count
preferred_slots_morning_first(section, day) == MORNING_SLOTS \o AFTERNOON_SLOTS

preferred_slots(section, day) ==
    IF daily_course_count[section][day] < 2
    THEN MORNING_SLOTS \o AFTERNOON_SLOTS
    ELSE AFTERNOON_SLOTS \o MORNING_SLOTS

\* the capacity filter left out
room_fits_always(room, section) == TRUE

room_fits(room, section) == room.capacity >= section.student_count

suitable_rooms(section, assignment, day, time) ==
    SelectSeq(rooms, LAMBDA room :
        room_fits(room, section)
        /\ _is_slot_available(assignment.faculty, section.name, room.number, day, time))

\* min(list, key=...): the first element of the list whose key, a tuple
\* compared as Python compares tuples, is minimal
MinByKey(s, key) ==
    LET less(i, j) == \/ key[i][1] < key[j][1]
                      \/ (key[i][1] = key[j][1] /\ key[i][2] < key[j][2])
    IN s[CHOOSE i \in DOMAIN s :
            /\ \A j \in DOMAIN s : ~less(j, i)
            /\ \A j \in 1..(i - 1) : less(i, j)]

\* the sessions of course_code this section already has in room r
course_sessions_in_room(section_name, course_code, r) ==
    Cardinality({i \in DOMAIN timetable[section_name] :
        /\ timetable[section_name][i].room.number = r.number
        /\ timetable[section_name][i].course.code = course_code})

\* the fallback key with its two parts swapped: capacity before session count
_select_best_room_capacity_first(rs, course_code, history, section_name) ==
    LET unused_rooms == SelectSeq(rs, LAMBDA r : r.number \notin history[course_code])
    IN IF unused_rooms # <<>>
       THEN MinByKey(unused_rooms,
                     [i \in DOMAIN unused_rooms |-> <<unused_rooms[i].capacity, 0>>])
       ELSE MinByKey(rs,
                     [i \in DOMAIN rs |->
                         <<rs[i].capacity,
                           course_sessions_in_room(section_name, course_code, rs[i])>>])

_select_best_room(rs, course_code, history, section_name) ==
    LET unused_rooms == SelectSeq(rs, LAMBDA r : r.number \notin history[course_code])
    IN IF unused_rooms # <<>>
       THEN MinByKey(unused_rooms,
                     [i \in DOMAIN unused_rooms |-> <<unused_rooms[i].capacity, 0>>])
       ELSE MinByKey(rs,
                     [i \in DOMAIN rs |->
                         <<course_sessions_in_room(section_name, course_code, rs[i]),
                           rs[i].capacity>>])

RECURSIVE time_from(_, _, _, _)
\* _try_schedule_course's loop from the k-th preferred slot on: the first time
\* with a suitable room, None when the loop ends and the method returns False
time_from(section, assignment, day, k) ==
    IF k > Len(preferred_slots(section.name, day)) THEN None
    ELSE IF \E time \in {preferred_slots(section.name, day)[k]} :
                suitable_rooms(section, assignment, day, time) # <<>>
         THEN preferred_slots(section.name, day)[k]
         ELSE time_from(section, assignment, day, k + 1)

first_time(section, assignment, day) == time_from(section, assignment, day, 1)

\* the day loop given up after the least loaded day
day_from_least_loaded_only(section, assignment, days, k) ==
    IF k > 1 THEN None
    ELSE IF first_time(section, assignment, days[k]) # None THEN days[k]
         ELSE None

RECURSIVE day_from(_, _, _, _)
\* the day loop of _attempt_schedule_courses from the k-th day of days on: the
\* first day on which _try_schedule_course returns True, None when every day
\* fails
day_from(section, assignment, days, k) ==
    IF k > Len(days) THEN None
    ELSE IF first_time(section, assignment, days[k]) # None THEN days[k]
         ELSE day_from(section, assignment, days, k + 1)

\* days_by_load is sorted once, before the day loop
first_day(section, assignment) ==
    CHOOSE day \in {day_from(section, assignment, days, 1)
                      : days \in {days_by_load(section.name)}} : TRUE

\* the slot records the teacher of the section's first assignment
TimeTableSlot_first_teacher(section, assignment, day, time, room) ==
    [day |-> day, time |-> time, course |-> assignment.course, room |-> room,
     section |-> section.name, faculty |-> section.course_assignments[1].faculty]

TimeTableSlot(section, assignment, day, time, room) ==
    [day |-> day, time |-> time, course |-> assignment.course, room |-> room,
     section |-> section.name, faculty |-> assignment.faculty]

\* the histories _update_room_history can leave: set.pop() removes an
\* arbitrary element of the set
_update_room_history(history, course_code, room_number) ==
    LET added == history[course_code] \cup {room_number}
    IN IF Cardinality(added) > 3
       THEN {[history EXCEPT ![course_code] = added \ {v}] : v \in added}
       ELSE {[history EXCEPT ![course_code] = added]}

\* the test off by one: a last hour is not seen
hours_left_above_one(rh) == \E c \in DOMAIN rh : rh[c] > 1

\* any(hours > 0 for hours in remaining_hours.values())
hours_left(rh) == \E c \in DOMAIN rh : rh[c] > 0

\* the while condition without its attempt cap
keep_trying_uncapped(rh, n) == hours_left(rh)

\* the while condition of _generate_section_timetable
keep_trying(rh, n) == hours_left(rh) /\ n < max_attempts

\* the deficit list without its `if hours > 0`
unscheduled_unfiltered(section, rh) ==
    LET order == Distinct([i \in DOMAIN section.course_assignments |->
                              section.course_assignments[i].course])
    IN [i \in DOMAIN order |-> <<order[i].code, rh[order[i]]>>]

\* the deficit list of _generate_section_timetable, in dict order
unscheduled(section, rh) ==
    LET order == Distinct([i \in DOMAIN section.course_assignments |->
                              section.course_assignments[i].course])
        left == SelectSeq(order, LAMBDA c : rh[c] > 0)
    IN [i \in DOMAIN left |-> <<left[i].code, rh[left[i]]>>]

\* the for loop left at the first section that fails
next_index_until_failure(i, success) == IF success THEN i + 1 ELSE Len(sections) + 1

\* where generate_timetable's for loop goes after a section returned
next_index(i, success) == i + 1

---------------------------------------------------------------------------
(* Validator and Statistics Collector *)

\* the keys of self.timetable in insertion order
timetable_keys ==
    SelectSeq([i \in DOMAIN sections |-> sections[i].name],
              LAMBDA n : n \in DOMAIN timetable)

\* the room test taken from two sessions on
same_room_from_two(rooms_used, course_slots) ==
    Cardinality(rooms_used) = 1 /\ Len(course_slots) >= 2

\* `len(rooms) == 1 and len(course_slots) > 2`
same_room(rooms_used, course_slots) ==
    Cardinality(rooms_used) = 1 /\ Len(course_slots) > 2

\* the spread test taken from a spread of two on
uneven_from_two(max_count, min_count) == max_count - min_count >= 2

\* `max_count - min_count > 2`
uneven(max_count, min_count) == max_count - min_count > 2

\* the issues the loop body of _validate_timetable appends for one section
validate_section(name, slots) ==
    IF slots = <<>>
    THEN <<[kind |-> "no_slots", section |-> name, course |-> None, detail |-> <<>>]>>
    ELSE
      LET codes == Distinct([i \in DOMAIN slots |-> slots[i].course.code])
          course_rooms(c) ==
              {slots[i].room.number : i \in {j \in DOMAIN slots : slots[j].course.code = c}}
          course_slots(c) == SelectSeq(slots, LAMBDA s : s.course.code = c)
          same == SelectSeq(codes, LAMBDA c :
                      same_room(course_rooms(c), course_slots(c)))
          variety == [i \in DOMAIN same |->
                         [kind |-> "same_room", section |-> name, course |-> same[i],
                          detail |-> <<CHOOSE r \in course_rooms(same[i]) : TRUE,
                                       Len(course_slots(same[i]))>>]]
          days == Distinct([i \in DOMAIN slots |-> slots[i].day])
          day_counts == [d \in Range(days) |->
                            Cardinality({i \in DOMAIN slots : slots[i].day = d})]
          max_count == Max({day_counts[d] : d \in Range(days)})
          min_count == Min({day_counts[d] : d \in Range(days)})
          distribution ==
              IF uneven(max_count, min_count)
              THEN <<[kind |-> "uneven", section |-> name, course |-> None,
                      detail |-> [i \in DOMAIN days |-> <<days[i], day_counts[days[i]]>>]]>>
              ELSE <<>>
      IN variety \o distribution

RECURSIVE ValidateFrom(_, _)
ValidateFrom(keys, tt) ==
    IF keys = <<>> THEN <<>>
    ELSE (CHOOSE found \in {validate_section(name, tt[name]) : name \in {Head(keys)}} : TRUE)
         \o ValidateFrom(Tail(keys), tt)

\* the second definition of the method (src/app.py:450) is the one in effect
_validate_timetable == ValidateFrom(timetable_keys, timetable)

RECURSIVE SlotsFrom(_, _)
\* every slot of the timetable, section by section
SlotsFrom(keys, tt) ==
    IF keys = <<>> THEN <<>> ELSE tt[Head(keys)] \o SlotsFrom(Tail(keys), tt)

\* the integer-valued parts of the statistics dict (the percentages are
\* floats derived from these counts)
statistics_of(all) ==
    LET n(P(_)) == Cardinality({i \in DOMAIN all : P(all[i])})
        used == {all[i].section : i \in DOMAIN all}
    IN [total_slots_scheduled |-> Len(all),
        room_utilization |->
            [r \in {all[i].room.number : i \in DOMAIN all} |->
                n(LAMBDA s : s.room.number = r)],
        faculty_load |->
            [f \in {all[i].faculty : i \in DOMAIN all} |-> n(LAMBDA s : s.faculty = f)],
        time_slot_usage |->
            [t \in {all[i].time : i \in DOMAIN all} |-> n(LAMBDA s : s.time = t)],
        course_distribution |->
            [sn \in used |->
                [c \in {all[i].course.code : i \in {j \in DOMAIN all : all[j].section = sn}} |->
                    n(LAMBDA s : s.section = sn /\ s.course.code = c)]],
        section_metrics |->
            [sn \in used |->
                [total_slots |-> n(LAMBDA s : s.section = sn),
                 unique_rooms |->
                     Cardinality({all[i].room.number :
                                    i \in {j \in DOMAIN all : all[j].section = sn}}),
                 morning_slots |->
                     n(LAMBDA s : s.section = sn /\ InList(s.time, MORNING_SLOTS)),
                 afternoon_slots |->
                     n(LAMBDA s : s.section = sn /\ ~InList(s.time, MORNING_SLOTS))]],
        daily_distribution |->
            [sn \in used |->
                [d \in {all[i].day : i \in {j \in DOMAIN all : all[j].section = sn}} |->
                    n(LAMBDA s : s.section = sn /\ s.day = d)]]]

\* all_slots is built once, then counted
_generate_statistics ==
    CHOOSE statistics \in {statistics_of(all) : all \in {SlotsFrom(timetable_keys, timetable)}} :
        TRUE

---------------------------------------------------------------------------
(* Inputs of a run: the three tables, the parity and the student counts *)

\* credits of the courses of the contention inputs range over 1..MaxCredits
MaxCredits == 2

\* hours asked of one section beyond what its grid can hold: 0..MaxDeficit
MaxDeficit == 1

Row(code, credits, semester, branch, faculty_members) ==
    [CourseCode |-> code, CourseName |-> code, Credits |-> credits,
     Semester |-> semester, Branch |-> branch, FacultyMembers |-> faculty_members]

RoomRow(number, capacity) == [RoomNumber |-> number, Capacity |-> capacity]

Counts(cse, ece, aids) ==
    [b \in Range(target_branches) |->
        [y \in 1..4 |-> IF b = "cse" THEN cse[y] ELSE IF b = "ece" THEN ece[y] ELSE aids[y]]]

Flat(n) == <<n, n, n, n>>

\* one one-credit course with a teacher of its own for every (branch, semester)
GeneralRows ==
    LET codes == <<"GEN-CSE1", "GEN-CSE2", "GEN-CSE3", "GEN-CSE4", "GEN-CSE5",
                   "GEN-CSE6", "GEN-CSE7", "GEN-CSE8", "GEN-ECE1", "GEN-ECE2",
                   "GEN-ECE3", "GEN-ECE4", "GEN-ECE5", "GEN-ECE6", "GEN-ECE7",
                   "GEN-ECE8", "GEN-AIDS1", "GEN-AIDS2", "GEN-AIDS3", "GEN-AIDS4",
                   "GEN-AIDS5", "GEN-AIDS6", "GEN-AIDS7", "GEN-AIDS8">>
        teachers == <<"T-CSE1", "T-CSE2", "T-CSE3", "T-CSE4", "T-CSE5", "T-CSE6",
                      "T-CSE7", "T-CSE8", "T-ECE1", "T-ECE2", "T-ECE3", "T-ECE4",
                      "T-ECE5", "T-ECE6", "T-ECE7", "T-ECE8", "T-AIDS1", "T-AIDS2",
                      "T-AIDS3", "T-AIDS4", "T-AIDS5", "T-AIDS6", "T-AIDS7", "T-AIDS8">>
    IN [k \in 1..24 |->
           Row(codes[k], 1, ((k - 1) % 8) + 1,
               <<"CSE", "ECE", "AIDS">>[((k - 1) \div 8) + 1], <<teachers[k]>>)]

\* rows, completed so that every (branch, semester) without a row has one
Completed(rows) ==
    rows \o SelectSeq(GeneralRows, LAMBDA g :
                ~\E i \in DOMAIN rows :
                    rows[i].Semester = g.Semester /\ lower(rows[i].Branch) = lower(g.Branch))

Input(courses_data, rooms_df, parity, counts) ==
    [courses_df |-> courses_data, rooms_df |-> rooms_df,
     semester_type |-> parity, student_counts |-> counts]

\* two sections that share a teacher, and one or two rooms
ContentionInputs ==
    { Input(rows, rooms_df, "even", Counts(Flat(30), Flat(30), Flat(30)))
      : rooms_df \in { <<RoomRow("R1", 40)>>, <<RoomRow("R1", 40), RoomRow("R2", 40)>> },
        rows \in { << Row("X", c[1], 2, "CSE", <<"F">>),
                      Row("Y", c[2], 2, "CSE", <<"G">>),
                      Row("Z", c[3], 4, "cse", <<"F">>),
                      Row("W", 1, 4, "cse", <<"H">>) >>
                   : c \in [1..3 -> 1..MaxCredits] } }

\* four large sections fill the large room's Monday; a small section taught
\* by the teacher of two of them asks for up to one whole grid and more
ScarcityInputs ==
    { Input(Completed(<< Row("A", 6, 2, "cse", <<"F">>),
                         Row("B", 6, 4, "cse", <<"G">>),
                         Row("C", 6, 6, "cse", <<"H">>),
                         Row("D", 6, 8, "cse", <<"H">>),
                         Row("E", 19 + k, 2, "ece", <<"H">>) >>),
            <<RoomRow("S", 30), RoomRow("B", 60)>>, "even",
            Counts(Flat(50), Flat(20), Flat(20)))
      : k \in 0..MaxDeficit }

\* one room: two sections take its mornings, a third asks for the afternoons
\* the afternoon cap allows and more, a fourth takes all but one of the slots
\* left, and a fifth has two courses for the last slot
FullRoomInputs ==
    { Input(<< Row("X", 10, 1, "cse", <<"F">>),
               Row("Y", 10, 3, "cse", <<"G">>),
               Row("Z", 10 + k, 5, "cse", <<"H">>),
               Row("W", 9, 7, "cse", <<"I">>),
               Row("P", 1, 1, "ece", <<"J">>),
               Row("Q", 1, 1, "ece", <<"F">>) >>,
            <<RoomRow("R1", 40)>>, "odd", Counts(Flat(30), Flat(30), Flat(30)))
      : k \in 0..MaxDeficit }

\* the first section's only course asks for the whole day cap of the week and
\* more; sections without rows follow, and a last one with a short course
OverloadInputs ==
    { Input(<< Row("X", 5 * max_courses_per_day + k, 2, "cse", <<"F">>),
               Row("Y", 2, 8, "AIDS", <<"G">>) >>,
            <<RoomRow("R1", 40)>>, "even", Counts(Flat(30), Flat(30), Flat(30)))
      : k \in 0..MaxDeficit }

\* more rooms than the room history holds, and a section only one room fits
VarietyInputs ==
    { Input(IF complete THEN Completed(rows) ELSE rows,
            <<RoomRow("A", 30), RoomRow("B", 40), RoomRow("C", 50), RoomRow("D", 60)>>,
            "even", Counts(<<25, 55, 25, 25>>, Flat(25), Flat(25)))
      : complete \in BOOLEAN,
        rows \in { << Row("X", 5, 2, "cse", <<"F">>),
                      Row("V", 1, 2, "cse", <<"G">>),
                      Row("Y", 2, 4, "cse", <<"F">>) >> } }

\* a cohort larger than the largest room, and a course two teachers can take
SplitInputs ==
    { Input(Completed(<< Row("X", 2, 1, "ece", <<"F", "G">>),
                         Row("Y", 1, 1, "ece", <<"F">>) >>),
            <<RoomRow("R1", 40), RoomRow("R2", 60)>>, "odd",
            Counts(Flat(30), <<n, 30, 30, 0>>, Flat(30)))
      : n \in {60, 61, 100} }

\* two sections that share their only teacher and the only room and need two
\* hours each, then a section that asks for more than the day cap allows
SharedInputs ==
    { Input(<< Row("X", 2, 2, "cse", <<"F">>),
               Row("Z", 2, 4, "cse", <<"F">>),
               Row("V", 5 * max_courses_per_day + 1, 8, "AIDS", <<"G">>) >>,
            <<RoomRow("R1", 40)>>, "even", Counts(Flat(30), Flat(30), Flat(30))) }

\* a course code that two rows of one (branch, semester) carry, with
\* different teacher lists
RepeatedInputs ==
    { Input(<< Row("X", 1, 1, "ece", <<"F", "G">>),
               Row("X", 1, 1, "ece", <<"G", "H">>) >>,
            <<RoomRow("R1", 40)>>, "odd", Counts(Flat(30), Flat(30), Flat(30))) }

\* one room whose Monday the seven sections before S8ECEA fill but for its
\* last slot; S8ECEA then has one Monday session and three or four a day after
UnevenInputs ==
    { Input(Completed(<< Row("B", k, 8, "ece", <<"T">>) >>),
            <<RoomRow("R1", 40)>>, "even", Counts(Flat(30), Flat(30), Flat(30)))
      : k \in {13, 14} }

\* no room rows at all
NoRoomsInputs ==
    { Input(<< Row("X", 1, 2, "cse", <<"F">>) >>, <<>>, "even",
            Counts(Flat(30), Flat(30), Flat(30))) }

Inputs == ContentionInputs \cup ScarcityInputs \cup FullRoomInputs
          \cup OverloadInputs
          \cup VarietyInputs \cup SplitInputs \cup SharedInputs
          \cup RepeatedInputs \cup NoRoomsInputs
          \cup UnevenInputs

---------------------------------------------------------------------------
(* The run: construction, then generate_timetable *)

\* generate_timetable has not returned; it returned None; it returned the statistics
NotReturned == [returned |-> FALSE, value |-> <<>>]

ReturnedNone == [returned |-> TRUE, value |-> <<>>]

Returned(statistics) == [returned |-> TRUE, value |-> <<statistics>>]

Names(secs) == {secs[i].name : i \in DOMAIN secs}

Faculty(secs) ==
    UNION {{secs[i].course_assignments[j].faculty : j \in DOMAIN secs[i].course_assignments}
           : i \in DOMAIN secs}

EmptyWeek == [d \in Range(DAYS) |-> {}]

\* max(room.capacity for room in self.rooms) of the first (branch, semester)
\* raises ValueError when self.rooms is empty; nothing catches it
_initialize_data_raises(input) == input.rooms_df = <<>>

\* the fields once the constructor has built secs, or has raised (at = "raised")
Constructed(input, secs, at) ==
    /\ courses_df = input.courses_df
    /\ semester_type = input.semester_type
    /\ student_counts = input.student_counts
    /\ rooms = InitRooms(input.rooms_df)
    /\ sections = secs
    /\ timetable = <<>>
    /\ faculty_schedule = [f \in Faculty(secs) |-> EmptyWeek]
    /\ section_schedule = [n \in Names(secs) |-> EmptyWeek]
    /\ room_schedule = [r \in {input.rooms_df[i].RoomNumber : i \in DOMAIN input.rooms_df}
                           |-> EmptyWeek]
    /\ daily_course_count = [n \in Names(secs) |-> [d \in Range(DAYS) |-> 0]]
    /\ remaining_hours = <<>>
    /\ course_room_history = <<>>
    /\ attempts = 0
    /\ pending = <<>>
    /\ sec_idx = 1
    /\ generation_success = TRUE
    /\ pc = at
    /\ errors = <<>>
    /\ issues = <<>>
    /\ result = NotReturned
    /\ called = <<>>
    /\ total_attempts = 0
    /\ validator_runs = 0

\* the state after TimeTableGenerator(...): the defaultdict faculty_schedule
\* is the function that is empty for every teacher of the run
Init ==
    \E input \in Inputs :
        IF _initialize_data_raises(input)
        THEN Constructed(input, <<>>, "raised")
        ELSE \E secs \in _initialize_data(input) : Constructed(input, secs, "start")

Section == sections[sec_idx]

Report(kind, section, list) == [kind |-> kind, section |-> section, unscheduled |-> list]

\* the number of times x occurs in list s
Occurrences(x, s) == Cardinality({i \in DOMAIN s : s[i] = x})

\* random.shuffle(course_assignments): the for loop may meet the assignments
\* in any order, so the list is kept as what is still to be visited
shuffled(course_assignments) ==
    [a \in Range(course_assignments) |-> Occurrences(a, course_assignments)]

Visited(a) == [pending EXCEPT ![a] = @ - 1]

LoopEnds(a) == \A b \in DOMAIN pending : Visited(a)[b] = 0

\* one hour per course, however many assignments it has
initial_hours_one_each(course_assignments) ==
    [c \in {course_assignments[i].course : i \in DOMAIN course_assignments} |-> 1]

\* defaultdict(int) after `remaining_hours[assignment.course] += 1` for each
initial_hours(course_assignments) ==
    LET courses == [i \in DOMAIN course_assignments |-> course_assignments[i].course]
    IN [c \in Range(courses) |-> Occurrences(c, courses)]

\* the busy set of the day replaced by the new time instead of extended
add_time_replacing(schedule, key, day, time) == [schedule EXCEPT ![key][day] = {time}]

\* _schedule_slot's update of one of the three busy-set maps
add_time(schedule, key, day, time) == [schedule EXCEPT ![key][day] = @ \cup {time}]

\* generate_timetable up to its for loop.  all_sections is never empty: every
\* (branch, semester) gets at least one section
Begin ==
    /\ pc = "start"
    /\ sections # <<>>
    /\ generation_success' = TRUE
    /\ sec_idx' = 1
    /\ pc' = "next_section"
    /\ UNCHANGED <<courses_df, semester_type, student_counts, rooms, sections, timetable, faculty_schedule, section_schedule,
                   room_schedule, daily_course_count, remaining_hours,
                   course_room_history, attempts, pending, errors, issues, result,
                   called, total_attempts, validator_runs>>

\* _generate_section_timetable on a section without assignments, and the
\* caller's `if not success`
SectionNoCourses ==
    /\ pc = "next_section"
    /\ sec_idx <= Len(sections)
    /\ Section.course_assignments = <<>>
    /\ timetable' = (Section.name :> <<>>) @@ timetable
    /\ called' = Append(called, Section.name)
    /\ errors' = errors \o <<Report("no_courses", Section.name, <<>>),
                             Report("failed", Section.name, <<>>)>>
    /\ generation_success' = FALSE
    /\ sec_idx' = next_index(sec_idx, FALSE)
    /\ UNCHANGED <<courses_df, semester_type, student_counts, rooms, sections, faculty_schedule, section_schedule, room_schedule,
                   daily_course_count, remaining_hours, course_room_history, attempts,
                   pending, pc, issues, result, total_attempts, validator_runs>>

\* _generate_section_timetable up to its while loop
SectionBegin ==
    /\ pc = "next_section"
    /\ sec_idx <= Len(sections)
    /\ Section.course_assignments # <<>>
    /\ timetable' = (Section.name :> <<>>) @@ timetable
    /\ called' = Append(called, Section.name)
    /\ remaining_hours' = initial_hours(Section.course_assignments)
    /\ course_room_history' =
           [c \in {Section.course_assignments[i].course.code
                     : i \in DOMAIN Section.course_assignments} |-> {}]
    /\ attempts' = 0
    /\ pc' = "while"
    /\ UNCHANGED <<courses_df, semester_type, student_counts, rooms, sections, faculty_schedule, section_schedule, room_schedule,
                   daily_course_count, pending, sec_idx, generation_success, errors,
                   issues, result, total_attempts, validator_runs>>

\* the while test holds: attempts += 1 and the shuffle of _attempt_schedule_courses
AttemptBegin ==
    /\ pc = "while"
    /\ keep_trying(remaining_hours, attempts)
    /\ attempts' = attempts + 1
    /\ total_attempts' = total_attempts + 1
    /\ pending' = shuffled(Section.course_assignments)
    /\ pc' = "for"
    /\ UNCHANGED <<courses_df, semester_type, student_counts, rooms, sections, timetable, faculty_schedule, section_schedule,
                   room_schedule, daily_course_count, remaining_hours,
                   course_room_history, sec_idx, generation_success, errors, issues,
                   result, called, validator_runs>>

\* one iteration of the for loop: `if remaining_hours[...] <= 0: continue`
AssignmentSkipped ==
    /\ pc = "for"
    /\ \E a \in DOMAIN pending :
        /\ pending[a] > 0
        /\ remaining_hours[a.course] <= 0
        /\ pending' = Visited(a)
        /\ pc' = IF LoopEnds(a) THEN "while" ELSE "for"
    /\ UNCHANGED <<courses_df, semester_type, student_counts, rooms, sections, timetable, faculty_schedule, section_schedule,
                   room_schedule, daily_course_count, remaining_hours,
                   course_room_history, attempts, sec_idx, generation_success, errors,
                   issues, result, called, total_attempts, validator_runs>>

\* the iteration of the for loop that meets assignment a, when some day takes
\* it: _try_schedule_course returns True after _schedule_slot and
\* _update_room_history
Place(a) ==
    /\ pc = "for"
    /\ pending[a] > 0
    /\ remaining_hours[a.course] > 0
    /\ \E day \in {first_day(Section, a)} :
       \E time \in {IF day = None THEN None ELSE first_time(Section, a, day)} :
       \E room \in {IF day = None THEN None
                    ELSE _select_best_room(suitable_rooms(Section, a, day, time),
                             a.course.code, course_room_history, Section.name)} :
          /\ day # None
          /\ timetable' = [timetable EXCEPT ![Section.name] =
                               Append(@, TimeTableSlot(Section, a, day, time, room))]
          /\ faculty_schedule' = add_time(faculty_schedule, a.faculty, day, time)
          /\ section_schedule' = add_time(section_schedule, Section.name, day, time)
          /\ room_schedule' = add_time(room_schedule, room.number, day, time)
          /\ daily_course_count' =
                 [daily_course_count EXCEPT ![Section.name][day] = @ + 1]
          /\ course_room_history' \in
                 _update_room_history(course_room_history, a.course.code, room.number)
    /\ remaining_hours' = [remaining_hours EXCEPT ![a.course] = @ - 1]
    /\ pending' = Visited(a)
    /\ pc' = IF LoopEnds(a) THEN "while" ELSE "for"
    /\ UNCHANGED <<courses_df, semester_type, student_counts, rooms, sections, attempts,
                   sec_idx, generation_success, errors, issues, result, called,
                   total_attempts, validator_runs>>

\* one iteration of the for loop in which some day takes the assignment
AssignmentPlaced == \E a \in DOMAIN pending : Place(a)

\* one iteration of the for loop in which every day fails
AssignmentNotPlaced ==
    /\ pc = "for"
    /\ \E a \in DOMAIN pending :
        /\ pending[a] > 0
        /\ remaining_hours[a.course] > 0
        /\ first_day(Section, a) = None
        /\ pending' = Visited(a)
        /\ pc' = IF LoopEnds(a) THEN "while" ELSE "for"
    /\ UNCHANGED <<courses_df, semester_type, student_counts, rooms, sections, timetable, faculty_schedule, section_schedule,
                   room_schedule, daily_course_count, remaining_hours,
                   course_room_history, attempts, sec_idx, generation_success, errors,
                   issues, result, called, total_attempts, validator_runs>>

\* the while loop is left with nothing to place: return True
SectionSuccess ==
    /\ pc = "while"
    /\ ~keep_trying(remaining_hours, attempts)
    /\ ~hours_left(remaining_hours)
    /\ sec_idx' = next_index(sec_idx, TRUE)
    /\ pc' = "next_section"
    /\ remaining_hours' = <<>>
    /\ course_room_history' = <<>>
    /\ attempts' = 0
    /\ UNCHANGED <<courses_df, semester_type, student_counts, rooms, sections, timetable, faculty_schedule, section_schedule,
                   room_schedule, daily_course_count, pending, generation_success,
                   errors, issues, result, called, total_attempts, validator_runs>>

\* the while loop is left with hours to place: the two reports, return False,
\* and the caller's `if not success`
SectionDeficit ==
    /\ pc = "while"
    /\ ~keep_trying(remaining_hours, attempts)
    /\ hours_left(remaining_hours)
    /\ errors' = errors \o
           <<Report("could_not_schedule", Section.name, <<>>),
             Report("unscheduled", Section.name, unscheduled(Section, remaining_hours)),
             Report("failed", Section.name, <<>>)>>
    /\ generation_success' = FALSE
    /\ sec_idx' = next_index(sec_idx, FALSE)
    /\ pc' = "next_section"
    /\ remaining_hours' = <<>>
    /\ course_room_history' = <<>>
    /\ attempts' = 0
    /\ UNCHANGED <<courses_df, semester_type, student_counts, rooms, sections, timetable, faculty_schedule, section_schedule,
                   room_schedule, daily_course_count, pending, issues, result, called,
                   total_attempts, validator_runs>>

\* a collector that reverses every section's slot list in place while it reads
FinishValidated_reversing ==
    /\ pc = "next_section"
    /\ sec_idx > Len(sections)
    /\ generation_success
    /\ issues' = _validate_timetable
    /\ validator_runs' = validator_runs + 1
    /\ result' = Returned(_generate_statistics)
    /\ timetable' = [n \in DOMAIN timetable |->
                        [i \in DOMAIN timetable[n] |->
                            timetable[n][Len(timetable[n]) + 1 - i]]]
    /\ pc' = "done"
    /\ UNCHANGED <<courses_df, semester_type, student_counts, rooms, sections,
                   faculty_schedule, section_schedule,
                   room_schedule, daily_course_count, remaining_hours,
                   course_room_history, attempts, pending, sec_idx,
                   generation_success, errors, called, total_attempts>>

\* after the for loop, every section succeeded: validate, return the statistics
FinishValidated ==
    /\ pc = "next_section"
    /\ sec_idx > Len(sections)
    /\ generation_success
    /\ issues' = _validate_timetable
    /\ validator_runs' = validator_runs + 1
    /\ result' = Returned(_generate_statistics)
    /\ pc' = "done"
    /\ UNCHANGED <<courses_df, semester_type, student_counts, rooms, sections, timetable, faculty_schedule, section_schedule,
                   room_schedule, daily_course_count, remaining_hours,
                   course_room_history, attempts, pending, sec_idx,
                   generation_success, errors, called, total_attempts>>

\* after the for loop, some section failed: return None
FinishFailed ==
    /\ pc = "next_section"
    /\ sec_idx > Len(sections)
    /\ ~generation_success
    /\ result' = ReturnedNone
    /\ pc' = "done"
    /\ UNCHANGED <<courses_df, semester_type, student_counts, rooms, sections, timetable, faculty_schedule, section_schedule,
                   room_schedule, daily_course_count, remaining_hours,
                   course_room_history, attempts, pending, sec_idx,
                   generation_success, errors, issues, called, total_attempts,
                   validator_runs>>

Next ==
    \/ Begin
    \/ SectionNoCourses
    \/ SectionBegin
    \/ AttemptBegin
    \/ AssignmentSkipped
    \/ AssignmentPlaced
    \/ AssignmentNotPlaced
    \/ SectionSuccess
    \/ SectionDeficit
    \/ FinishValidated
    \/ FinishFailed

Spec == Init /\ [][Next]_vars

\* the run is one synchronous call: a step that can be taken is taken
FairSpec == Spec /\ WF_vars(Next)

\* a validator that keeps its list on the object and extends it on every call
Revalidate_extending ==
    /\ pc = "done"
    /\ validator_runs = 1
    /\ issues' = issues \o _validate_timetable
    /\ validator_runs' = validator_runs + 1
    /\ UNCHANGED <<courses_df, semester_type, student_counts, rooms, sections,
                   timetable, faculty_schedule, section_schedule,
                   room_schedule, daily_course_count, remaining_hours,
                   course_room_history, attempts, pending, sec_idx,
                   generation_success, pc, errors, result, called,
                   total_attempts>>

\* _validate_timetable() called once more on the generator of a run that
\* validated: it builds a fresh list from self.timetable and assigns nothing
Revalidate ==
    /\ pc = "done"
    /\ validator_runs = 1
    /\ issues' = _validate_timetable
    /\ validator_runs' = validator_runs + 1
    /\ UNCHANGED <<courses_df, semester_type, student_counts, rooms, sections,
                   timetable, faculty_schedule, section_schedule,
                   room_schedule, daily_course_count, remaining_hours,
                   course_room_history, attempts, pending, sec_idx,
                   generation_success, pc, errors, result, called,
                   total_attempts>>

\* the run followed by a second call of the validator
ValidatorSpec == Init /\ [][Next \/ Revalidate]_vars

---------------------------------------------------------------------------
(* Properties *)

\* every ScheduledSlot of the run, section by section
AllSlots == SlotsFrom(timetable_keys, timetable)

SameCell(s, t) == s.day = t.day /\ s.time = t.time

SectionNamed(name) == sections[CHOOSE i \in DOMAIN sections : sections[i].name = name]

\* the sessions section n has on day d, as indices of its slot list
SessionsOn(n, d) == {i \in DOMAIN timetable[n] : timetable[n][i].day = d}

FirstFourSlots == {TIME_SLOTS[k] : k \in 1..4}

MorningOn(n, d) == {i \in SessionsOn(n, d) : timetable[n][i].time \in FirstFourSlots}

AfternoonOn(n, d) == {i \in SessionsOn(n, d) : timetable[n][i].time \notin FirstFourSlots}

\* C1: over all sections of the run, no two ScheduledSlots with the same
\* faculty share the same (day, time-slot), after every placement and at the end.
C1_NoFacultyDoubleBooking ==
    \A all \in {AllSlots} :
        \A i, j \in DOMAIN all :
            (i # j /\ all[i].faculty = all[j].faculty) => ~SameCell(all[i], all[j])

\* a teacher holds sessions of two sections on one day
C1_Witness ==
    \E all \in {AllSlots} :
        \E i, j \in DOMAIN all :
            /\ all[i].faculty = all[j].faculty
            /\ all[i].section # all[j].section
            /\ all[i].day = all[j].day

\* C2: over all sections of the run, no two ScheduledSlots in the same room
\* share the same (day, time-slot), after every placement and at the end.
C2_NoRoomDoubleBooking ==
    \A all \in {AllSlots} :
        \A i, j \in DOMAIN all :
            (i # j /\ all[i].room.number = all[j].room.number)
                => ~SameCell(all[i], all[j])

\* a room holds sessions of two sections on one day
C2_Witness ==
    \E all \in {AllSlots} :
        \E i, j \in DOMAIN all :
            /\ all[i].room.number = all[j].room.number
            /\ all[i].section # all[j].section
            /\ all[i].day = all[j].day

\* C3: no two ScheduledSlots of the same section share the same
\* (day, time-slot), after every placement and at the end.
C3_NoSectionDoubleBooking ==
    \A n \in DOMAIN timetable :
        \A i, j \in DOMAIN timetable[n] :
            i # j => ~SameCell(timetable[n][i], timetable[n][j])

\* a section has two sessions on one day, with different teachers
C3_Witness ==
    \E n \in DOMAIN timetable :
        \E i, j \in DOMAIN timetable[n] :
            /\ i # j
            /\ timetable[n][i].day = timetable[n][j].day
            /\ timetable[n][i].faculty # timetable[n][j].faculty

\* C4: the room of every committed ScheduledSlot has a capacity of at least
\* the student count of the slot's section.
C4_CapacityRespected ==
    \A n \in DOMAIN timetable :
        \A i \in DOMAIN timetable[n] :
            timetable[n][i].room.capacity >= SectionNamed(n).student_count

\* a section is placed although some room of the run is too small for it
C4_Witness ==
    \E n \in DOMAIN timetable :
        /\ timetable[n] # <<>>
        /\ \E k \in DOMAIN rooms : rooms[k].capacity < SectionNamed(n).student_count

\* C5: in every reachable state, every section has on every day at most 4
\* sessions, at most 3 of them in the first four time-slots and at most 2 of
\* them in the remaining time-slots.
C5_DailyCaps ==
    \A n \in DOMAIN timetable :
        \A d \in Range(DAYS) :
            /\ Cardinality(SessionsOn(n, d)) <= 4
            /\ Cardinality(MorningOn(n, d)) <= 3
            /\ Cardinality(AfternoonOn(n, d)) <= 2

\* one section has a day with 4 sessions and a day with 3 morning sessions
C5_Witness ==
    \E n \in DOMAIN timetable :
        /\ \E d \in Range(DAYS) :
              Cardinality(SessionsOn(n, d)) = 4 /\ Cardinality(AfternoonOn(n, d)) = 2
        /\ \E d \in Range(DAYS) : Cardinality(MorningOn(n, d)) = 3

\* the section has been reported as a scheduling failure
Failed(name) ==
    \E i \in DOMAIN errors : errors[i].kind = "failed" /\ errors[i].section = name

Codes(section) ==
    {section.course_assignments[i].course.code : i \in DOMAIN section.course_assignments}

\* the credit-hours section asks for course code: its CourseAssignments
Required(section, code) ==
    Cardinality({i \in DOMAIN section.course_assignments :
                    section.course_assignments[i].course.code = code})

\* the ScheduledSlots committed for (section, course code)
Placed(section, code) ==
    Cardinality({i \in DOMAIN timetable[section.name] :
                    timetable[section.name][i].course.code = code})

\* _generate_section_timetable has returned for sections[k]
Processed(k) == k < sec_idx /\ sections[k].name \in DOMAIN timetable

\* C6: at completion, every section not reported as a scheduling failure has,
\* for each of its courses, as many ScheduledSlots as the course has
\* credit-hours (CourseAssignments in the section).
C6_HourConservation ==
    pc = "done" =>
        \A k \in DOMAIN sections :
            ~Failed(sections[k].name) =>
                \A c \in Codes(sections[k]) :
                    Placed(sections[k], c) = Required(sections[k], c)

\* a finished run in which one section failed and another, with a course of
\* several hours, did not
C6_Witness ==
    /\ pc = "done"
    /\ \E k \in DOMAIN sections : Failed(sections[k].name)
    /\ \E k \in DOMAIN sections :
          /\ ~Failed(sections[k].name)
          /\ \E c \in Codes(sections[k]) : Required(sections[k], c) >= 2

\* C7: a section whose attempt loop ended with hours left is reported as a
\* scheduling failure, and its deficit lists exactly the courses with unmet
\* hours, each once with credit-hours minus committed ScheduledSlots.
C7_DeficitReport ==
    \A k \in DOMAIN sections :
        Processed(k) =>
            LET section == sections[k]
                short == {c \in Codes(section) : Required(section, c) > Placed(section, c)}
            IN short # {} =>
                /\ Failed(section.name)
                /\ \E i \in DOMAIN errors :
                      /\ errors[i].kind = "unscheduled"
                      /\ errors[i].section = section.name
                      /\ Len(errors[i].unscheduled) = Cardinality(short)
                      /\ Range(errors[i].unscheduled) =
                            {<<c, Required(section, c) - Placed(section, c)>> : c \in short}

\* a deficit has been reported for a section that has another course fully placed
C7_Witness ==
    \E k \in DOMAIN sections :
        /\ Processed(k)
        /\ \E c \in Codes(sections[k]) : Required(sections[k], c) > Placed(sections[k], c)
        /\ \E c \in Codes(sections[k]) : Required(sections[k], c) = Placed(sections[k], c)
        /\ \E i \in DOMAIN errors :
              errors[i].kind = "unscheduled" /\ errors[i].section = sections[k].name

SectionNames == [i \in DOMAIN sections |-> sections[i].name]

\* C8: generate_timetable calls _generate_section_timetable on every section
\* of the run exactly once, in order, whatever the earlier sections' outcomes.
C8_EverySectionOnce ==
    /\ Len(called) <= Len(sections)
    /\ called = SubSeq(SectionNames, 1, Len(called))
    /\ pc = "done" => called = SectionNames

\* a finished run in which a section with a deficit and a section without
\* courses each came before a section that got its slots
C8_Witness ==
    /\ pc = "done"
    /\ \E i, j, k \in DOMAIN sections :
          /\ i < k /\ j < k
          /\ \E e \in DOMAIN errors :
                errors[e].kind = "unscheduled" /\ errors[e].section = sections[i].name
          /\ sections[j].course_assignments = <<>>
          /\ timetable[sections[k].name] # <<>>
          /\ ~Failed(sections[k].name)

\* C9: a run with a failed section still ends with the Validator run once and
\* the statistics returned.
C9_PartialResultsDelivered ==
    (pc = "done" /\ \E k \in DOMAIN sections : Failed(sections[k].name))
        => (validator_runs = 1 /\ result # ReturnedNone)

\* C10: every run ends (generate_timetable returns, or the constructor has
\* raised); a section's loop makes at most 100 attempts and begins
\* one only while hours are left and the cap is not reached, so the run makes
\* at most 100 attempts per section.
C10_Terminates ==
    /\ [](attempts <= 100 /\ total_attempts <= 100 * Len(sections))
    /\ [][attempts' = attempts + 1 =>
            (attempts < 100 /\ \E c \in DOMAIN remaining_hours : remaining_hours[c] > 0)]_vars
    /\ <>(pc \in {"done", "raised"})

\* a finished run in which one section used all its attempts and another
\* stopped after its first
C10_Witness ==
    /\ pc = "done"
    /\ total_attempts > 100
    /\ \E k \in DOMAIN sections : timetable[sections[k].name] # <<>> /\ ~Failed(sections[k].name)

\* isFree of the Availability Index, from the busy sets and the day counter
IsFree(faculty, name, number, day, time) ==
    /\ time \notin faculty_schedule[faculty][day]
    /\ time \notin section_schedule[name][day]
    /\ time \notin room_schedule[number][day]
    /\ daily_course_count[name][day] < 4
    /\ time \in FirstFourSlots =>
          Cardinality(section_schedule[name][day] \cap FirstFourSlots) < 3
    /\ time \notin FirstFourSlots =>
          Cardinality(section_schedule[name][day] \ FirstFourSlots) < 2

\* this step is the for loop leaving an hour of assignment a unplaced
LeftUnplaced(a) ==
    /\ pc = "for"
    /\ pending[a] > 0
    /\ remaining_hours[a.course] > 0
    /\ pending' = [pending EXCEPT ![a] = @ - 1]
    /\ timetable' = timetable

\* the two sections with assignments that come first share their only teacher,
\* need two hours each, and the run has one room
SharedPair(i, j) ==
    /\ Len(rooms) = 1
    /\ i < j
    /\ \A k \in 1..(j - 1) : k # i => sections[k].course_assignments = <<>>
    /\ Len(sections[i].course_assignments) = 2
    /\ Len(sections[j].course_assignments) = 2
    /\ \E f \in DOMAIN faculty_schedule :
          \A k \in {i, j} : \A n \in 1..2 : sections[k].course_assignments[n].faculty = f

\* C11: whenever an attempt leaves a course-hour unplaced, no (day, time, room)
\* with room capacity >= section size was free for it at that moment; and two
\* sections that share one teacher and one room and need 2 hours each get all
\* 4 sessions, without a deficit.
C11_DeficitOnlyWhenExhausted ==
    /\ [][\A a \in DOMAIN pending :
            LeftUnplaced(a) =>
                \A d \in Range(DAYS), t \in Range(TIME_SLOTS), r \in Range(rooms) :
                    ~(r.capacity >= Section.student_count
                      /\ IsFree(a.faculty, Section.name, r.number, d, t))]_vars
    /\ [](pc = "done" =>
            \A i, j \in DOMAIN sections :
                SharedPair(i, j) =>
                    /\ Len(timetable[sections[i].name]) = 2
                    /\ Len(timetable[sections[j].name]) = 2
                    /\ ~Failed(sections[i].name) /\ ~Failed(sections[j].name))

\* the shared pair has its four sessions and a later section has just been
\* left with an hour that no attempt placed
C11_Witness ==
    /\ pc = "while"
    /\ attempts >= 1
    /\ \E c \in DOMAIN remaining_hours : remaining_hours[c] > 0
    /\ \E i, j \in DOMAIN sections :
          /\ SharedPair(i, j)
          /\ Len(timetable[sections[i].name]) = 2
          /\ Len(timetable[sections[j].name]) = 2

\* the rows of courses_df that give section its course code, in row order
CourseRows(section, code) ==
    SelectSeq(courses_df, LAMBDA row :
        /\ row.Semester = section.semester
        /\ lower(row.Branch) = section.branch
        /\ row.CourseCode = code)

\* C12: within one section, all CourseAssignments of one course, and all its
\* ScheduledSlots in the section, carry one teacher, who is a member of the
\* teacher list of the course (of the first row that gives the course).
C12_OneFacultyPerCourse ==
    \A k \in DOMAIN sections :
        LET ca == sections[k].course_assignments
            slots == IF sections[k].name \in DOMAIN timetable
                     THEN timetable[sections[k].name] ELSE <<>>
        IN /\ \A i, j \in DOMAIN ca :
                ca[i].course.code = ca[j].course.code => ca[i].faculty = ca[j].faculty
           /\ \A i \in DOMAIN ca :
                ca[i].faculty \in
                    Range(CourseRows(sections[k], ca[i].course.code)[1].FacultyMembers)
           /\ \A n \in DOMAIN slots : \A i \in DOMAIN ca :
                slots[n].course.code = ca[i].course.code
                    => slots[n].faculty = ca[i].faculty

\* a section has placed two hours of a course whose row lists several teachers
C12_Witness ==
    \E k \in DOMAIN sections :
        /\ sections[k].name \in DOMAIN timetable
        /\ \E c \in Codes(sections[k]) :
              /\ Cardinality(Range(CourseRows(sections[k], c)[1].FacultyMembers)) >= 2
              /\ Required(sections[k], c) >= 2
              /\ Placed(sections[k], c) = Required(sections[k], c)

RoomNumbers == {rooms[i].number : i \in DOMAIN rooms}

\* C13: with the seed and the inputs fixed, every choice of the run is fixed:
\* once the seeded shuffle has decided which assignment the for loop meets, the
\* placement has one outcome, the room history it leaves included, so two
\* runs produce identical schedules.
C13_SeedDeterminesRun ==
    \A a \in DOMAIN pending :
        (pc = "for" /\ pending[a] > 0) =>
            \A S \in SUBSET RoomNumbers :
                ~ /\ ENABLED (Place(a) /\ course_room_history'[a.course.code] = S)
                  /\ ENABLED (Place(a) /\ course_room_history'[a.course.code] # S)

\* C14: when no rooms are supplied the run is rejected with a configuration
\* error before any section is built and before any scheduling work: an error
\* is reported, no section exists, no slot is placed and the Availability
\* Index is untouched.
C14_NoRoomsRejected ==
    rooms = <<>> =>
        /\ pc \notin {"next_section", "while", "for", "done"}
        /\ \E e \in DOMAIN errors : errors[e].kind = "configuration"
        /\ sections = <<>>
        /\ timetable = <<>>
        /\ \A f \in DOMAIN faculty_schedule : faculty_schedule[f] = EmptyWeek
        /\ \A n \in DOMAIN section_schedule : section_schedule[n] = EmptyWeek
        /\ \A r \in DOMAIN room_schedule : room_schedule[r] = EmptyWeek

\* the sections built for (branch, semester), as indices of all_sections
Cohort(branch, semester) ==
    {i \in DOMAIN sections :
        sections[i].branch = branch /\ sections[i].semester = semester}

Capacities == {rooms[i].capacity : i \in DOMAIN rooms}

\* student_counts[branch][year] of the cohort that sits in `semester`
CohortCount(branch, semester) == student_counts[branch][(semester + 1) \div 2]

\* C15: a cohort of n students that fits the largest room is one section of n
\* students; otherwise it is split in ceil(n / smallest capacity) sections of
\* ceil(n / sections) students each, which are at least 2 sections, each no
\* larger than the smallest room, and together hold at least n students.
C15_SplitArithmetic ==
    rooms # <<>> =>
        \A branch \in Range(target_branches) :
            \A semester \in Range(target_semesters(semester_type)) :
                LET n == CohortCount(branch, semester)
                    k == Cardinality(Cohort(branch, semester))
                    smallest == CHOOSE c \in Capacities : \A d \in Capacities : c <= d
                IN IF \E c \in Capacities : n <= c
                   THEN /\ k = 1
                        /\ \A i \in Cohort(branch, semester) : sections[i].student_count = n
                   ELSE /\ (k - 1) * smallest < n /\ n <= k * smallest
                        /\ \A i \in Cohort(branch, semester) :
                              /\ (sections[i].student_count - 1) * k < n
                              /\ n <= sections[i].student_count * k
                              /\ sections[i].student_count <= smallest
                        /\ k >= 2
                        /\ Sum([i \in Cohort(branch, semester) |->
                                   sections[i].student_count],
                               Cohort(branch, semester)) >= n

\* a cohort that is split in three, next to one that is not, after a run
C15_Witness ==
    /\ pc = "done"
    /\ \E branch \in Range(target_branches) :
           \E s1, s2 \in Range(target_semesters(semester_type)) :
               /\ \A c \in Capacities : CohortCount(branch, s1) > c
               /\ Cardinality(Cohort(branch, s1)) = 3
               /\ \E c \in Capacities : CohortCount(branch, s2) <= c
               /\ Cardinality(Cohort(branch, s2)) = 1

C17_RetryEscapesDeadEnd ==
    (pc = "for" /\ attempts > 1 /\ pending = shuffled(Section.course_assignments)) =>
        \E a \in DOMAIN pending :
            remaining_hours[a.course] > 0 /\ ENABLED Place(a)

\* what the runs do instead: a placement is only ever committed by the first
\* attempt of a section, since no busy set or counter ever shrinks
RetriesPlaceNothing ==
    [][(pc = "for" /\ timetable'[Section.name] # timetable[Section.name])
           => attempts = 1]_vars

\* _generate_section_timetable is about to run on a section without assignments
AtEmptySection ==
    pc = "next_section" /\ sec_idx <= Len(sections) /\ Section.course_assignments = <<>>

\* C18: a section without CourseAssignments is reported and skipped: its call
\* runs no attempt, places no slot for it and leaves the Availability Index as
\* it was; the sections after it are still processed, and the run delivers
\* its results (the validated schedule and the statistics) for the others.
C18_EmptySectionSkipped ==
    /\ [][AtEmptySection =>
            /\ \E e \in DOMAIN errors' :
                  errors'[e].kind = "no_courses" /\ errors'[e].section = Section.name
            /\ total_attempts' = total_attempts
            /\ timetable'[Section.name] = <<>>
            /\ \A n \in DOMAIN timetable : timetable'[n] = timetable[n]
            /\ UNCHANGED <<faculty_schedule, section_schedule, room_schedule,
                           daily_course_count>>
            /\ sec_idx' = sec_idx + 1]_vars
    /\ []((pc = "done" /\ \E k \in DOMAIN sections : sections[k].course_assignments = <<>>)
            => /\ called = SectionNames
               /\ validator_runs = 1
               /\ result # ReturnedNone)

\* this step commits a placement for the section being scheduled
Commits ==
    /\ pc = "for"
    /\ Len(timetable'[Section.name]) = Len(timetable[Section.name]) + 1

\* the slot a committing step appends
Committed == timetable'[Section.name][Len(timetable'[Section.name])]

\* before the step, some room of sufficient capacity is free at (day, time)
\* for the teacher and the section of the committed slot
Feasible(day, time) ==
    \E i \in DOMAIN rooms :
        /\ rooms[i].capacity >= Section.student_count
        /\ IsFree(Committed.faculty, Section.name, rooms[i].number, day, time)

\* day d is tried before day e: fewer sessions of the section, ties Monday first
DayBefore(d, e) ==
    LET count(x) == daily_course_count[Section.name][x]
    IN \/ count(d) < count(e)
       \/ count(d) = count(e) /\ IndexOf(d, DAYS) < IndexOf(e, DAYS)

\* the position of a slot in the order of a day: the grid order while the
\* day has fewer than 2 sessions, the last four slots before the first four
\* otherwise
SlotPosition(day, time) ==
    LET k == IndexOf(time, TIME_SLOTS)
    IN IF daily_course_count[Section.name][day] < 2 THEN k
       ELSE IF time \in FirstFourSlots THEN k + 4 ELSE k - 4

\* C19: every committed placement is at the first feasible (day, slot) of the
\* search order: days by ascending count of the section (ties Monday..Friday),
\* on a day morning-then-afternoon while its count is < 2 and
\* afternoon-then-morning otherwise; feasible means that some room of
\* sufficient capacity passes isFree.
C19_FirstFeasiblePlacement ==
    [][Commits =>
        /\ Feasible(Committed.day, Committed.time)
        /\ \A d \in Range(DAYS) : \A t \in Range(TIME_SLOTS) :
              Feasible(d, t) =>
                  /\ ~DayBefore(d, Committed.day)
                  /\ d = Committed.day =>
                        SlotPosition(d, t) >= SlotPosition(d, Committed.time)]_vars

\* a section's Monday got its third session in the first afternoon slot, after
\* two sessions in the first two morning slots
C19_Witness ==
    \E n \in DOMAIN timetable :
        /\ Len(timetable[n]) >= 3
        /\ {timetable[n][i].time : i \in SessionsOn(n, "Monday")}
              = {TIME_SLOTS[1], TIME_SLOTS[2], TIME_SLOTS[5]}
        /\ \A d \in Range(DAYS) : Cardinality(SessionsOn(n, d)) >= 2

\* the rooms that were suitable for the committed slot: sufficient capacity
\* and free at its (day, time) before the step, as indices of rooms
Suitable ==
    {i \in DOMAIN rooms :
        /\ rooms[i].capacity >= Section.student_count
        /\ IsFree(Committed.faculty, Section.name, rooms[i].number,
                  Committed.day, Committed.time)}

\* the suitable rooms outside the room history of the committed slot's course
Unused ==
    {i \in Suitable : rooms[i].number \notin course_room_history[Committed.course.code]}

\* the sessions of the committed slot's course the section had in rooms[i]
PriorSessions(i) ==
    Cardinality({k \in DOMAIN timetable[Section.name] :
        /\ timetable[Section.name][k].course.code = Committed.course.code
        /\ timetable[Section.name][k].room.number = rooms[i].number})

\* C20: the room of a committed placement is, when some suitable room is
\* outside the course's room history, a suitable room outside the history of
\* minimum capacity among those; otherwise a suitable room with the fewest
\* prior sessions of that course in that section, ties by smallest capacity.
C20_RoomChoice ==
    [][Commits =>
        \E c \in Suitable :
            /\ rooms[c] = Committed.room
            /\ IF Unused # {}
               THEN /\ c \in Unused
                    /\ \A i \in Unused : rooms[c].capacity <= rooms[i].capacity
               ELSE \A i \in Suitable :
                       \/ PriorSessions(c) < PriorSessions(i)
                       \/ /\ PriorSessions(c) = PriorSessions(i)
                          /\ rooms[c].capacity <= rooms[i].capacity]_vars

\* a section took a room again for a course although a smaller room it had
\* used for that course was free at that time: the smaller room had held more
\* of the course's sessions
C20_Witness ==
    \E n \in DOMAIN timetable :
        \E j, k \in DOMAIN timetable[n] :
            LET slots == timetable[n]
                before(room) == Cardinality({i \in 1..(k - 1) : slots[i].room = room})
            IN /\ j < k
               /\ \A i \in 1..k : slots[i].course = slots[1].course
               /\ slots[j].room = slots[k].room
               /\ slots[1].room.capacity < slots[k].room.capacity
               /\ slots[k].time \notin room_schedule[slots[1].room.number][slots[k].day]
               /\ before(slots[1].room) > before(slots[k].room)

\* list s is list t or a beginning of it
IsPrefix(s, t) == Len(s) <= Len(t) /\ SubSeq(t, 1, Len(s)) = s

\* every busy set of the map is kept or extended by the step
BusyGrows(schedule, next) ==
    \A key \in DOMAIN schedule : \A d \in Range(DAYS) :
        schedule[key][d] \subseteq next[key][d]

\* C21: nothing placed is undone: in every step each section's slot list is
\* kept or extended at its end, every faculty, section and room busy set is
\* kept or extended, no day counter decreases, and while one section is being
\* scheduled the slot list of every other section stays as it is.
C21_NothingUndone ==
    [][/\ \A n \in DOMAIN timetable :
             n \in DOMAIN timetable' /\ IsPrefix(timetable[n], timetable'[n])
       /\ BusyGrows(faculty_schedule, faculty_schedule')
       /\ BusyGrows(section_schedule, section_schedule')
       /\ BusyGrows(room_schedule, room_schedule')
       /\ \A n \in DOMAIN daily_course_count : \A d \in Range(DAYS) :
             daily_course_count[n][d] <= daily_course_count'[n][d]
       /\ pc \in {"while", "for"} =>
             \A n \in DOMAIN timetable :
                 n # Section.name => timetable'[n] = timetable[n]]_vars

\* a section is being scheduled on a day and in a room an earlier section
\* has slots on, and has a second slot on a day it already had one
C21_Witness ==
    /\ pc = "for"
    /\ \E n \in DOMAIN timetable :
          /\ n # Section.name
          /\ \E i \in DOMAIN timetable[n] : \E j \in DOMAIN timetable[Section.name] :
                /\ timetable[n][i].day = timetable[Section.name][j].day
                /\ timetable[n][i].room = timetable[Section.name][j].room
    /\ \E d \in Range(DAYS) : Cardinality(SessionsOn(Section.name, d)) >= 2

\* every ScheduledSlot of the run, as a set
Scheduled == UNION {Range(timetable[n]) : n \in DOMAIN timetable}

\* the time-slots of the slots teacher f has on day d
FacultyTimes(f, d) == {s.time : s \in {x \in Scheduled : x.day = d /\ x.faculty = f}}

\* the time-slots of the slots in room r on day d
RoomTimes(r, d) == {s.time : s \in {x \in Scheduled : x.day = d /\ x.room.number = r}}

\* the number of slots section n has on day d; none before it is scheduled
SlotCount(n, d) ==
    IF n \in DOMAIN timetable THEN Cardinality(SessionsOn(n, d)) ELSE 0

\* C22: the Availability Index agrees with the schedule in every state: for
\* every section and day the day counter equals the size of the section's
\* busy set and the number of the section's slots on that day, and the busy
\* set of every faculty and of every room on a day is exactly the set of
\* time-slots of the slots of that faculty or room on that day.
C22_IndexAgreesWithSchedule ==
    /\ \A n \in DOMAIN daily_course_count : \A d \in Range(DAYS) :
          /\ daily_course_count[n][d] = Cardinality(section_schedule[n][d])
          /\ daily_course_count[n][d] = SlotCount(n, d)
    /\ \A f \in DOMAIN faculty_schedule : \A d \in Range(DAYS) :
          faculty_schedule[f][d] = FacultyTimes(f, d)
    /\ \A r \in DOMAIN room_schedule : \A d \in Range(DAYS) :
          room_schedule[r][d] = RoomTimes(r, d)

\* a teacher and a room have slots of two sections on one day, and a section
\* has courses of two teachers
C22_Witness ==
    \E s, t, u \in Scheduled :
        /\ s.section # t.section
        /\ s.day = t.day
        /\ s.faculty = t.faculty
        /\ s.room = t.room
        /\ u.section = s.section
        /\ u.faculty # s.faculty

\* the hours still open for course code in the section being scheduled
RemainingFor(code) ==
    Sum(remaining_hours, {c \in DOMAIN remaining_hours : c.code = code})

\* C23: while a section is being scheduled no remainingHours is negative, and
\* for every course of the section the hours still open plus the slots
\* committed for it equal its credit-hours (its CourseAssignments); every
\* committed placement uses up one visit of its CourseAssignment in the
\* attempt, so an attempt places an assignment at most once.
C23_RemainingHoursAccount ==
    /\ [](pc \in {"while", "for"} =>
            /\ \A c \in DOMAIN remaining_hours : remaining_hours[c] >= 0
            /\ \A code \in Codes(Section) :
                  RemainingFor(code) + Placed(Section, code) = Required(Section, code))
    /\ [][Commits =>
            \E a \in DOMAIN pending :
                /\ pending[a] > 0
                /\ pending' = [pending EXCEPT ![a] = @ - 1]
                /\ Committed.course = a.course
                /\ Committed.faculty = a.faculty
                /\ remaining_hours' = [remaining_hours EXCEPT ![a.course] = @ - 1]]_vars

\* in the middle of an attempt a course of several hours has some placed and
\* some open, next to another course of the section
C23_Witness ==
    /\ pc = "for"
    /\ \E c, e \in DOMAIN remaining_hours :
          /\ c # e
          /\ remaining_hours[c] > 0
          /\ Placed(Section, c.code) > 0

\* the validator has run on the schedule as it is now
Validated == pc = "done" /\ validator_runs >= 1

\* the validator's list has a warning of this kind for (section n, course)
Warned(kind, n, course) ==
    \E i \in DOMAIN issues :
        issues[i].kind = kind /\ issues[i].section = n /\ issues[i].course = course

\* the slots section n has for course code, as indices of its list
CourseSlots(n, code) == {i \in DOMAIN timetable[n] : timetable[n][i].course.code = code}

\* C24: the validator warns of room monotony for a (section, course) pair if
\* and only if the course has more than 2 slots in the section and all of
\* them are in one room.
C24_RoomMonotonyWarning ==
    Validated =>
        \A n \in DOMAIN timetable :
            \A code \in {courses_df[r].CourseCode : r \in DOMAIN courses_df} :
                Warned("same_room", n, code) <=>
                    /\ Cardinality(CourseSlots(n, code)) > 2
                    /\ \A i, j \in CourseSlots(n, code) :
                          timetable[n][i].room.number = timetable[n][j].room.number

\* a validated schedule with a warned course next to a course of more than
\* two sessions in several rooms
C24_Witness ==
    /\ Validated
    /\ \E n \in DOMAIN timetable : \E i \in DOMAIN timetable[n] :
          Warned("same_room", n, timetable[n][i].course.code)
    /\ \E n \in DOMAIN timetable : \E i, j \in DOMAIN timetable[n] :
          /\ timetable[n][i].course = timetable[n][j].course
          /\ timetable[n][i].room # timetable[n][j].room
          /\ Cardinality(CourseSlots(n, timetable[n][i].course.code)) > 2

\* C25: the validator warns of the distribution of a section if and only if,
\* among the days on which the section has a slot, the most-loaded day has
\* more than 2 sessions more than the least-loaded one.
C25_DistributionWarning ==
    Validated =>
        \A n \in DOMAIN timetable :
            Warned("uneven", n, None) <=>
                \E d, e \in Range(DAYS) :
                    /\ SessionsOn(n, e) # {}
                    /\ Cardinality(SessionsOn(n, d)) - Cardinality(SessionsOn(n, e)) > 2

\* a validated schedule in which a section with four sessions on one day and
\* one on another is warned
C25_Witness ==
    /\ Validated
    /\ \E n \in DOMAIN timetable :
          /\ Warned("uneven", n, None)
          /\ \E d, e \in Range(DAYS) :
                Cardinality(SessionsOn(n, d)) = 4 /\ Cardinality(SessionsOn(n, e)) = 1

\* this step is a call of the validator or of the statistics collector
Reports ==
    \/ validator_runs' # validator_runs
    \/ result' # result /\ result' # ReturnedNone

\* C26: a run of the validator or of the statistics collector leaves the
\* scheduling state as it was: the slot lists of the sections, the three
\* busy-set maps and the day counters.
C26_ReportsLeaveSchedule ==
    [][Reports => UNCHANGED <<timetable, faculty_schedule, section_schedule,
                              room_schedule, daily_course_count>>]_vars

\* both have run on a schedule in which a section has slots on several days
C26_Witness ==
    /\ validator_runs = 1
    /\ result \notin {NotReturned, ReturnedNone}
    /\ \E n \in DOMAIN timetable : \E i, j \in DOMAIN timetable[n] :
          timetable[n][i].day # timetable[n][j].day

\* C27: after every committed placement of a course in a section, the room
\* history of that course contains the room just used and holds at most 3
\* rooms.
C27_HistoryHoldsRoomUsed ==
    [][Commits =>
        /\ Committed.room.number \in course_room_history'[Committed.course.code]
        /\ Cardinality(course_room_history'[Committed.course.code]) <= 3]_vars

\* the cap by itself: no room history ever holds more than 3 rooms
HistoryCapped ==
    \A code \in DOMAIN course_room_history :
        Cardinality(course_room_history[code]) <= 3

====
